---- MODULE Spec2Model ----
(***************************************************************************)
(* Model of the 2048 grid engine of src/2048.cpp: the Xorshift generator   *)
(* and the Grid<size> class (constructor, move, reset, spawn_new_number,   *)
(* move_helper).  The terminal user interface is not modelled.             *)
(*                                                                         *)
(* 32-bit unsigned values of the generator are bit vectors, functions      *)
(* 0..31 -> {0,1} with bit 0 the least significant one, so that shifts and *)
(* exclusive-or are computed exactly as the 32-bit machine computes them.  *)
(***************************************************************************)
EXTENDS Integers, Sequences, FiniteSets, TLC

\* Largest template argument `size` explored.
MaxSize == 4
\* Largest number of move()/reset() calls made on one engine.
MaxOps == 5
\* Largest number of outputs drawn from a generator on its own.
MaxDraws == 2
\* Generator values are sampled in blocks of 2^SampleBits consecutive values.
SampleBits == 4

VARIABLES
    size,                \* template parameter of Grid<size>
    prng_,               \* Xorshift::state, a 32-bit vector
    empty_cells_count_,  \* unsigned short
    score_,              \* unsigned int
    state_,              \* State::running / State::ended
    grid_,               \* std::array<uint8_t, size*size>, row-major
    ops,                 \* number of move()/reset() calls made so far
    last,                \* record of the last call: its entry state and what it did
    twin,                \* a second engine of the same size, given the same calls
    draw                 \* an Xorshift generator used on its own

vars == <<size, prng_, empty_cells_count_, score_, state_, grid_, ops, last, twin, draw>>

-----------------------------------------------------------------------------
(* 32-bit unsigned arithmetic *)

Bit == 0..31

\* The 32-bit value hi * 2^16 + lo.
U32(hi, lo) ==
    [i \in Bit |-> IF i < 16 THEN (lo \div (2 ^ i)) % 2 ELSE (hi \div (2 ^ (i - 16))) % 2]

\* x << k and x >> k on uint32_t.
Shl(x, k) == [i \in Bit |-> IF i >= k THEN x[i - k] ELSE 0]
Shr(x, k) == [i \in Bit |-> IF i + k <= 31 THEN x[i + k] ELSE 0]
Xor(x, y) == [i \in Bit |-> (x[i] + y[i]) % 2]

IsZero32(x) == \A i \in Bit : x[i] = 0

\* x % m for 0 < m < 2^16, by Horner's rule from the most significant bit.
RECURSIVE ModFrom(_, _, _, _)
ModFrom(x, i, m, acc) ==
    IF i < 0 THEN acc ELSE ModFrom(x, i - 1, m, (2 * acc + x[i]) % m)
Mod32(x, m) == ModFrom(x, 31, m, 0)

\* (x / 4) == 0
Div4IsZero(x) == \A i \in 2..31 : x[i] = 0

-----------------------------------------------------------------------------
(* struct Xorshift *)

\* Variant of the constructor that keeps a seed of 0.
XorshiftInitNoRemap(seed) == seed

\* Xorshift::Xorshift(seed)
XorshiftInit(seed) == IF IsZero32(seed) THEN U32(0, 1) ELSE seed

\* Variant of operator() with the shifts 13, 17, 5.
XorshiftNextShift5(s) ==
    LET a == Xor(s, Shl(s, 13))
        b == Xor(a, Shr(a, 17))
    IN  Xor(b, Shl(b, 5))

\* Xorshift::operator(): the new state, which is also the value returned.
XorshiftNext(s) ==
    LET a == Xor(s, Shl(s, 13))
        b == Xor(a, Shr(a, 17))
    IN  Xor(b, Shl(b, 15))

-----------------------------------------------------------------------------
(* Grid<size> *)

Cells == 0..(size * size - 1)

\* enum class direction { up = 0b00, down = 0b01, left = 0b10, right = 0b11 }
up == 0
down == 1
left == 2
right == 3
Directions == {up, down, left, right}

EmptyGrid == [c \in Cells |-> 0]

\* x = ((prng_() / 4) == 0) + 1, for the generator output r.
SpawnValue(r) == (IF Div4IsZero(r) THEN 1 ELSE 0) + 1

\* Variant of the scan without empty_cells_count_--.
RECURSIVE SpawnScanNoDecrement(_, _, _, _, _)
SpawnScanNoDecrement(g, k, loc, ec, p) ==
    IF k >= size * size
    THEN [grid |-> g, empty |-> ec, prng |-> p, at |-> -1, ub |-> TRUE]
    ELSE IF loc = 0 /\ g[k] = 0
         THEN LET p2 == XorshiftNext(p)
              IN  [grid  |-> [g EXCEPT ![k] = SpawnValue(p2)],
                   empty |-> ec,
                   prng  |-> p2,
                   at    |-> k,
                   ub    |-> FALSE]
         ELSE SpawnScanNoDecrement(g, k + 1, IF g[k] = 0 THEN loc - 1 ELSE loc, ec, p)

\* Variant of the scan that takes the tile value from the first draw.
RECURSIVE SpawnScanOneDraw(_, _, _, _, _)
SpawnScanOneDraw(g, k, loc, ec, p) ==
    IF k >= size * size
    THEN [grid |-> g, empty |-> ec, prng |-> p, at |-> -1, ub |-> TRUE]
    ELSE IF loc = 0 /\ g[k] = 0
         THEN [grid  |-> [g EXCEPT ![k] = SpawnValue(p)],
               empty |-> (ec - 1) % 65536,
               prng  |-> p,
               at    |-> k,
               ub    |-> FALSE]
         ELSE SpawnScanOneDraw(g, k + 1, IF g[k] = 0 THEN loc - 1 ELSE loc, ec, p)

\* Grid::spawn_new_number, the range-for over grid_ from cell k on, with
\* spawn_loc = loc.  p is the generator state after the first draw.
RECURSIVE SpawnScan(_, _, _, _, _)
SpawnScan(g, k, loc, ec, p) ==
    IF k >= size * size
    THEN [grid |-> g, empty |-> ec, prng |-> p, at |-> -1, ub |-> TRUE]
    ELSE IF loc = 0 /\ g[k] = 0
         THEN LET p2 == XorshiftNext(p)
              IN  [grid  |-> [g EXCEPT ![k] = SpawnValue(p2)],
                   empty |-> (ec - 1) % 65536,
                   prng  |-> p2,
                   at    |-> k,
                   ub    |-> FALSE]
         ELSE SpawnScan(g, k + 1, IF g[k] = 0 THEN loc - 1 ELSE loc, ec, p)

\* Grid::spawn_new_number.  With empty_cells_count_ == 0 the remainder is
\* undefined; the result then carries ub = TRUE.
SpawnNewNumber(g, ec, p) ==
    LET p1 == XorshiftNext(p)
    IN  IF ec = 0
        THEN [grid |-> g, empty |-> ec, prng |-> p1, at |-> -1, ub |-> TRUE]
        ELSE SpawnScan(g, 0, Mod32(p1, ec) % 65536, ec, p1)

\* The working state of Grid::move_helper: the members it updates, its locals
\* `modified` and `top`, and three observations of the run: `merges` counts
\* the executions of the merge branch, origin[c] is the set of cells of the
\* board at entry whose tiles make up the tile now in cell c, and cursor_ok
\* tells whether CursorOk held at the start of every scan step so far.
HelperStart(g, ec, sc) ==
    [grid     |-> g,
     empty    |-> ec,
     score    |-> sc,
     modified |-> FALSE,
     top      |-> 0,
     merges   |-> 0,
     origin   |-> [c \in Cells |-> IF g[c] = 0 THEN {} ELSE {c}],
     cursor_ok |-> TRUE]

\* std::iter_swap(it, top), carrying the observation along.
IterSwap(h, it) ==
    [h EXCEPT !.grid   = [h.grid EXCEPT ![it] = h.grid[h.top], ![h.top] = h.grid[it]],
              !.origin = [h.origin EXCEPT ![it] = h.origin[h.top], ![h.top] = h.origin[it]]]

\* Variants of the slide branch: one that also advances top, one that sets
\* modified without swapping.
SlideBranchAdvances(h, it, it_stride) ==
    [IterSwap(h, it) EXCEPT !.modified = TRUE, !.top = h.top + it_stride]
SlideBranchStays(h, it, it_stride) ==
    [h EXCEPT !.modified = TRUE]

\* else if (*top == 0) { std::iter_swap(it, top); modified = true; }
SlideBranch(h, it, it_stride) ==
    [IterSwap(h, it) EXCEPT !.modified = TRUE]

\* Variants of the merge branch: without empty_cells_count_++, without
\* top += it_stride, and without *it = 0.
MergeBranchNoCount(h, it, it_stride) ==
    [h EXCEPT !.grid     = [h.grid EXCEPT ![it] = 0, ![h.top] = (h.grid[h.top] + 1) % 256],
              !.score    = h.score + 2 ^ h.grid[h.top],
              !.top      = h.top + it_stride,
              !.modified = TRUE,
              !.merges   = h.merges + 1,
              !.origin   = [h.origin EXCEPT ![it] = {},
                                            ![h.top] = h.origin[h.top] \cup h.origin[it]]]
MergeBranchNoAdvance(h, it, it_stride) ==
    [h EXCEPT !.grid     = [h.grid EXCEPT ![it] = 0, ![h.top] = (h.grid[h.top] + 1) % 256],
              !.empty    = (h.empty + 1) % 65536,
              !.score    = h.score + 2 ^ h.grid[h.top],
              !.modified = TRUE,
              !.merges   = h.merges + 1,
              !.origin   = [h.origin EXCEPT ![it] = {},
                                            ![h.top] = h.origin[h.top] \cup h.origin[it]]]
MergeBranchKeepsIt(h, it, it_stride) ==
    [h EXCEPT !.grid     = [h.grid EXCEPT ![h.top] = (h.grid[h.top] + 1) % 256],
              !.empty    = (h.empty + 1) % 65536,
              !.score    = h.score + 2 ^ h.grid[h.top],
              !.top      = h.top + it_stride,
              !.modified = TRUE,
              !.merges   = h.merges + 1,
              !.origin   = [h.origin EXCEPT ![h.top] = h.origin[h.top] \cup h.origin[it]]]

\* else if (*it == *top) { *it = 0; empty_cells_count_++; score_ += 1 << *top;
\*                         (*top)++; top += it_stride; modified = true; }
\* score_ is an unsigned int: within MaxOps calls it stays far below 2^32, so
\* the sum is the machine's sum.
MergeBranch(h, it, it_stride) ==
    [h EXCEPT !.grid     = [h.grid EXCEPT ![it] = 0, ![h.top] = (h.grid[h.top] + 1) % 256],
              !.empty    = (h.empty + 1) % 65536,
              !.score    = h.score + 2 ^ h.grid[h.top],
              !.top      = h.top + it_stride,
              !.modified = TRUE,
              !.merges   = h.merges + 1,
              !.origin   = [h.origin EXCEPT ![it] = {},
                                            ![h.top] = h.origin[h.top] \cup h.origin[it]]]

\* Variant of the last branch that advances top and never swaps.
ElseBranchNoSwap(h, it, it_stride) ==
    [h EXCEPT !.top = h.top + it_stride]

\* Variant of the last branch that sets modified whether or not it swaps.
ElseBranchAlwaysModified(h, it, it_stride) ==
    LET h1 == [h EXCEPT !.top = h.top + it_stride, !.modified = TRUE]
    IN  IF h1.top # it THEN IterSwap(h1, it) ELSE h1

\* else { top += it_stride; if (top != it) { std::iter_swap(it, top); modified = true; } }
ElseBranch(h, it, it_stride) ==
    LET h1 == [h EXCEPT !.top = h.top + it_stride]
    IN  IF h1.top # it THEN [IterSwap(h1, it) EXCEPT !.modified = TRUE] ELSE h1

\* The body of the inner for loop.
ScanStep(h, it, it_stride) ==
    IF h.grid[it] = 0 THEN h
    ELSE IF h.grid[h.top] = 0 THEN SlideBranch(h, it, it_stride)
    ELSE IF h.grid[it] = h.grid[h.top] THEN MergeBranch(h, it, it_stride)
    ELSE ElseBranch(h, it, it_stride)

\* The position of the cursor at the start of the scan step that reads cell
\* `it`, the j-th cell of its line counted from the leading edge cell
\* it - j * it_stride: the line lies inside the board (and inside one row when
\* it runs along a row), top is one of its cells before `it`, every cell
\* between the two is empty, and if the step takes the last branch and swaps,
\* the cell it swaps into is empty.
CursorOk(h, it, j, it_stride) ==
    LET start == it - j * it_stride
        cell(u) == start + u * it_stride
    IN  /\ \A u \in 0..(size - 1) : cell(u) \in Cells
        /\ (it_stride = 1 \/ it_stride = -1) =>
               \A u \in 0..(size - 1) : cell(u) \div size = start \div size
        /\ \E t \in 0..(j - 1) :
               /\ h.top = cell(t)
               /\ \A u \in (t + 1)..(j - 1) : h.grid[cell(u)] = 0
        /\ (h.grid[it] # 0 /\ h.grid[h.top] # 0 /\ h.grid[it] # h.grid[h.top]
               /\ h.top + it_stride # it)
              => h.grid[h.top + it_stride] = 0

\* for (unsigned short j = 1; j < size; j++, it += it_stride)
RECURSIVE InnerLoop(_, _, _, _)
InnerLoop(h, it, j, it_stride) ==
    IF j >= size THEN h
    ELSE InnerLoop(ScanStep([h EXCEPT !.cursor_ok = @ /\ CursorOk(h, it, j, it_stride)],
                            it, it_stride),
                   it + it_stride, j + 1, it_stride)

\* for (unsigned short i = 0; i < size; i++, top = top_start + i * top_stride)
RECURSIVE OuterLoop(_, _, _, _, _)
OuterLoop(h, i, top_start, top_stride, it_stride) ==
    IF i >= size THEN h
    ELSE LET top == top_start + i * top_stride
             h1  == InnerLoop([h EXCEPT !.top = top], top + it_stride, 1, it_stride)
         IN  OuterLoop(h1, i + 1, top_start, top_stride, it_stride)

\* The switch of move_helper.
TopStride(dir) ==
    IF dir = up THEN 1 ELSE IF dir = down THEN -1 ELSE IF dir = left THEN size ELSE -size
ItStride(dir) ==
    IF dir = up THEN size ELSE IF dir = down THEN -size ELSE IF dir = left THEN 1 ELSE -1

\* grid_.begin() + ((size * size - 1) * (dir_integral & 1))
TopStart(dir) == (size * size - 1) * (dir % 2)

\* Grid::move_helper
MoveHelper(g, ec, sc, dir) ==
    OuterLoop(HelperStart(g, ec, sc), 0, TopStart(dir), TopStride(dir), ItStride(dir))

\* What `last` keeps of a pass, and its value for a call that ran no pass.
PassOf(h) == [grid |-> h.grid, modified |-> h.modified, merges |-> h.merges,
              origin |-> h.origin, cursor_ok |-> h.cursor_ok]
NoPass(g) == [grid |-> g, modified |-> FALSE, merges |-> 0,
              origin |-> [c \in Cells |-> IF g[c] = 0 THEN {} ELSE {c}],
              cursor_ok |-> TRUE]

-----------------------------------------------------------------------------
(* Operations.  Each member function is an operator from the members at     *)
(* entry to the members at return, in the field `now`, together with what   *)
(* the call did: the pass it ran and the spawn it made.                      *)

\* What spawn_new_number is entered with: the board and empty_cells_count_.
SpawnInput(g, ec) == [grid |-> g, empty |-> ec]
NoSpawnInput == [grid |-> <<>>, empty |-> 0]

Members(g, ec, sc, st, p) ==
    [grid |-> g, empty |-> ec, score |-> sc, state |-> st, prng |-> p]

\* The members of the engine in the current state.
Snapshot == Members(grid_, empty_cells_count_, score_, state_, prng_)

\* Grid::Grid(seed): the member initialisers, then spawn_new_number().
GridNew(seed) ==
    LET p0 == XorshiftInit(seed)
        s  == SpawnNewNumber(EmptyGrid, size * size, p0)
    IN  [now     |-> Members(s.grid, s.empty, 0, "running", s.prng),
         op      |-> "new",
         dir     |-> up,
         pre     |-> Members(EmptyGrid, size * size, 0, "running", p0),
         pass    |-> NoPass(EmptyGrid),
         spawned |-> TRUE,
         into    |-> SpawnInput(EmptyGrid, size * size),
         at      |-> s.at,
         ub      |-> s.ub]

\* Variant of the pass and spawn that ends the game as soon as the board is full.
MovePassEager(m, dir) ==
    LET h == MoveHelper(m.grid, m.empty, m.score, dir)
        s == SpawnNewNumber(h.grid, h.empty, m.prng)
    IN  IF h.modified
        THEN [now     |-> Members(s.grid, s.empty, h.score,
                                  IF s.empty = 0 THEN "ended" ELSE m.state, s.prng),
              op      |-> "move",
              dir     |-> dir,
              pre     |-> m,
              pass    |-> PassOf(h),
              spawned |-> TRUE,
              into    |-> SpawnInput(h.grid, h.empty),
              at      |-> s.at,
              ub      |-> s.ub]
        ELSE [now     |-> Members(h.grid, h.empty, h.score, m.state, m.prng),
              op      |-> "move",
              dir     |-> dir,
              pre     |-> m,
              pass    |-> PassOf(h),
              spawned |-> FALSE,
              into    |-> NoSpawnInput,
              at      |-> -1,
              ub      |-> FALSE]

\* Grid::move(dir) on a board that is not full:
\* if (move_helper(dir)) spawn_new_number();
MovePass(m, dir) ==
    LET h == MoveHelper(m.grid, m.empty, m.score, dir)
    IN  IF h.modified
        THEN LET s == SpawnNewNumber(h.grid, h.empty, m.prng)
             IN  [now     |-> Members(s.grid, s.empty, h.score, m.state, s.prng),
                  op      |-> "move",
                  dir     |-> dir,
                  pre     |-> m,
                  pass    |-> PassOf(h),
                  spawned |-> TRUE,
                  into    |-> SpawnInput(h.grid, h.empty),
                  at      |-> s.at,
                  ub      |-> s.ub]
        ELSE [now     |-> Members(h.grid, h.empty, h.score, m.state, m.prng),
              op      |-> "move",
              dir     |-> dir,
              pre     |-> m,
              pass    |-> PassOf(h),
              spawned |-> FALSE,
              into    |-> NoSpawnInput,
              at      |-> -1,
              ub      |-> FALSE]

\* The missing-return variant of move: the full board sets ended and the pass
\* runs all the same.
GridMoveFallsThrough(m, dir) ==
    IF m.empty = 0
    THEN LET r == MovePass(m, dir) IN [r EXCEPT !.now.state = "ended"]
    ELSE MovePass(m, dir)

\* Grid::move(dir), entered with the members m.
GridMove(m, dir) ==
    IF m.empty = 0
    THEN [now     |-> [m EXCEPT !.state = "ended"],
          op      |-> "move",
          dir     |-> dir,
          pre     |-> m,
          pass    |-> NoPass(m.grid),
          spawned |-> FALSE,
          into    |-> NoSpawnInput,
          at      |-> -1,
          ub      |-> FALSE]
    ELSE MovePass(m, dir)

\* Variants of reset: one that forgets std::fill, one that forgets to restore
\* empty_cells_count_, one that also clears the score.
GridResetNoFill(m) ==
    LET s == SpawnNewNumber(m.grid, size * size, m.prng)
    IN  [now     |-> Members(s.grid, s.empty, m.score, m.state, s.prng),
         op      |-> "reset",
         dir     |-> up,
         pre     |-> m,
         pass    |-> NoPass(m.grid),
         spawned |-> TRUE,
         into    |-> SpawnInput(m.grid, size * size),
         at      |-> s.at,
         ub      |-> s.ub]
GridResetKeepsCount(m) ==
    LET s == SpawnNewNumber(EmptyGrid, m.empty, m.prng)
    IN  [now     |-> Members(s.grid, s.empty, m.score, m.state, s.prng),
         op      |-> "reset",
         dir     |-> up,
         pre     |-> m,
         pass    |-> NoPass(m.grid),
         spawned |-> TRUE,
         into    |-> SpawnInput(EmptyGrid, m.empty),
         at      |-> s.at,
         ub      |-> s.ub]
GridResetClearsScore(m) ==
    LET s == SpawnNewNumber(EmptyGrid, size * size, m.prng)
    IN  [now     |-> Members(s.grid, s.empty, 0, m.state, s.prng),
         op      |-> "reset",
         dir     |-> up,
         pre     |-> m,
         pass    |-> NoPass(m.grid),
         spawned |-> TRUE,
         into    |-> SpawnInput(EmptyGrid, size * size),
         at      |-> s.at,
         ub      |-> s.ub]

\* Grid::reset(), entered with the members m.
GridReset(m) ==
    LET s == SpawnNewNumber(EmptyGrid, size * size, m.prng)
    IN  [now     |-> Members(s.grid, s.empty, m.score, m.state, s.prng),
         op      |-> "reset",
         dir     |-> up,
         pre     |-> m,
         pass    |-> NoPass(m.grid),
         spawned |-> TRUE,
         into    |-> SpawnInput(EmptyGrid, size * size),
         at      |-> s.at,
         ub      |-> s.ub]

\* The call r returns: its results become the members.
Install(r) ==
    /\ grid_' = r.now.grid
    /\ empty_cells_count_' = r.now.empty
    /\ score_' = r.now.score
    /\ state_' = r.now.state
    /\ prng_' = r.now.prng
    /\ last' = [op |-> r.op, dir |-> r.dir, pre |-> r.pre, pass |-> r.pass,
                spawned |-> r.spawned, into |-> r.into, at |-> r.at, ub |-> r.ub]

\* Seeds: 0, 1, 0xFFFFFFFF, and two seeds whose value-selecting draw is below 4
\* (1358956545 at the first spawn, 1652692242 at the second).
Seeds == {U32(0, 0), U32(0, 1), U32(65535, 65535), U32(20736, 2049), U32(25218, 5394)}

\* The members and `last` are those of a Grid<size> constructed with seed.
Constructed(seed) ==
    \E r \in {GridNew(seed)} :
        /\ grid_ = r.now.grid
        /\ empty_cells_count_ = r.now.empty
        /\ score_ = r.now.score
        /\ state_ = r.now.state
        /\ prng_ = r.now.prng
        /\ last = [op |-> r.op, dir |-> r.dir, pre |-> r.pre, pass |-> r.pass,
                   spawned |-> r.spawned, into |-> r.into, at |-> r.at, ub |-> r.ub]

\* No second engine, and no generator on its own.
NoTwin == [on |-> FALSE, m |-> Members(<<>>, 0, 0, "running", U32(0, 0))]
NoDraw == [prev |-> U32(0, 0), state |-> U32(0, 0), value |-> 0, n |-> 0]

\* Construction of a Grid<size> with a seed.
Init ==
    /\ size \in 1..MaxSize
    /\ ops = 0
    /\ \E seed \in Seeds : Constructed(seed)
    /\ twin = NoTwin
    /\ draw = NoDraw

\* A call of move(dir), on the engine and on its twin if there is one.
Move(dir) ==
    /\ ops < MaxOps
    /\ ops' = ops + 1
    /\ size' = size
    /\ \E r \in {GridMove(Snapshot, dir)} : Install(r)
    /\ twin' = IF twin.on THEN [twin EXCEPT !.m = GridMove(twin.m, dir).now] ELSE twin
    /\ draw' = draw

\* A call of reset(), on the engine and on its twin if there is one.
Reset ==
    /\ ops < MaxOps
    /\ ops' = ops + 1
    /\ size' = size
    /\ \E r \in {GridReset(Snapshot)} : Install(r)
    /\ twin' = IF twin.on THEN [twin EXCEPT !.m = GridReset(twin.m).now] ELSE twin
    /\ draw' = draw

Next == (\E dir \in Directions : Move(dir)) \/ Reset

Spec == Init /\ [][Next]_vars

\* Two engines of one size, constructed with seed 0 and with seed 1, and given
\* the same calls.
InitTwin ==
    /\ size \in 1..MaxSize
    /\ ops = 0
    /\ Constructed(U32(0, 0))
    /\ twin = [on |-> TRUE, m |-> GridNew(U32(0, 1)).now]
    /\ draw = NoDraw

SpecTwin == InitTwin /\ [][Next]_vars

\* The 32-bit values sampled: one block of 2^SampleBits consecutive values at
\* the start of each quarter of the 32-bit range.
Sample ==
    {U32(hi, lo) : hi \in {0, 16384, 32768, 49152}, lo \in 0..(2 ^ SampleBits - 1)}

\* Xorshift prng(seed), on its own, beside an engine that is left alone.
InitDraw ==
    /\ size = 1
    /\ ops = 0
    /\ Constructed(U32(0, 1))
    /\ twin = NoTwin
    /\ \E seed \in Sample :
          draw = [prev |-> XorshiftInit(seed), state |-> XorshiftInit(seed),
                  value |-> 0, n |-> 0]

\* r = prng(), and the tile value spawn_new_number would take from r.
Draw ==
    /\ draw.n < MaxDraws
    /\ \E r \in {XorshiftNext(draw.state)} :
          draw' = [prev |-> draw.state, state |-> r, value |-> SpawnValue(r),
                   n |-> draw.n + 1]
    /\ UNCHANGED <<size, prng_, empty_cells_count_, score_, state_, grid_, ops, last, twin>>

NextDraw == Draw

SpecDraw == InitDraw /\ [][NextDraw]_vars

-----------------------------------------------------------------------------
(* Vocabulary of the properties *)

ZeroCells(g) == Cardinality({c \in Cells : g[c] = 0})
Tiles(g) == Cardinality({c \in Cells : g[c] # 0})

\* The cells of line i of a move in direction dir, from the leading edge on.
Line(dir, i) ==
    [j \in 0..(size - 1) |-> TopStart(dir) + i * TopStride(dir) + j * ItStride(dir)]
LineIndex == 0..(size - 1)

\* The exponents a board g holds along line i of direction dir.
Along(g, dir, i) == [j \in 1..size |-> g[Line(dir, i)[j - 1]]]

RECURSIVE SumOf(_, _)
SumOf(S, g) ==
    IF S = {} THEN 0
    ELSE LET c == CHOOSE x \in S : TRUE IN 2 ^ g[c] + SumOf(S \ {c}, g)

\* The sum of the values of the tiles the pass formed by merging.
FormedValue(pass) ==
    SumOf({c \in Cells : Cardinality(pass.origin[c]) >= 2}, pass.grid)

\* Two equal tiles lie side by side somewhere on the board g.
AdjacentEqual(g) ==
    \E c \in Cells :
        /\ g[c] # 0
        /\ \/ (c % size # size - 1 /\ g[c + 1] = g[c])
           \/ (c + size \in Cells /\ g[c + size] = g[c])

MoveRan == last.op = "move" /\ last.pre.empty # 0

-----------------------------------------------------------------------------
(* Properties *)

\* C1: in every reachable state empty_cells_count_ is the number of zero cells
\* of the board, and it lies between 0 and size*size.
EmptyCountIsZeroCells ==
    /\ empty_cells_count_ = ZeroCells(grid_)
    /\ 0 <= empty_cells_count_
    /\ empty_cells_count_ <= size * size

\* A move that merged at least once and then spawned.
EmptyCountAfterMergeAndSpawn ==
    /\ MoveRan
    /\ last.pass.merges >= 1
    /\ last.spawned
    /\ empty_cells_count_ = ZeroCells(grid_)

\* C2: a move raises the score by the sum of the values of the tiles its
\* merges formed, 2^(new exponent) each.
ScoreGainIsFormedTiles ==
    last.op = "move" => score_ - last.pre.score = FormedValue(last.pass)

\* C3: a move entered with empty_cells_count_ == 0 sets the state to ended and
\* leaves board, score, empty count and generator as they were, whatever the
\* direction, the tiles on the board and the state at entry.
FullBoardMoveOnlyEnds ==
    (last.op = "move" /\ last.pre.empty = 0) =>
        /\ state_ = "ended"
        /\ grid_ = last.pre.grid
        /\ score_ = last.pre.score
        /\ empty_cells_count_ = last.pre.empty
        /\ prng_ = last.pre.prng

\* A further move on an engine that had already ended, on a full board of
\* size >= 2 that holds two equal tiles side by side.
EndedMoveWithMergeablePair ==
    /\ last.op = "move"
    /\ last.pre.empty = 0
    /\ last.pre.state = "ended"
    /\ size >= 2
    /\ AdjacentEqual(last.pre.grid)
    /\ state_ = "ended"

\* C4: after reset() the state is running.
ResetMakesRunning ==
    last.op = "reset" => state_ = "running"

\* C5: after reset() exactly one cell is non-zero, with exponent 1 or 2,
\* empty_cells_count_ is size*size - 1 and the score is what it was.
ResetLeavesOneTileAndScore ==
    last.op = "reset" =>
        /\ Tiles(grid_) = 1
        /\ \A c \in Cells : grid_[c] \in {0, 1, 2}
        /\ empty_cells_count_ = size * size - 1
        /\ score_ = last.pre.score

\* A reset of a board with several tiles and a positive score.
ResetOfPlayedBoard ==
    /\ last.op = "reset"
    /\ Tiles(last.pre.grid) >= 3
    /\ last.pre.score > 0
    /\ Tiles(grid_) = 1

\* C6: when the pass leaves the board as it was, the move changes no member and
\* spawns nothing; when the pass changes a cell, the move spawns one tile: the
\* board at return is the board after the pass with one empty cell filled.
ModifiedFlagIsExact ==
    MoveRan =>
        IF last.pass.grid = last.pre.grid
        THEN /\ Snapshot = last.pre
             /\ ~last.spawned
        ELSE /\ last.spawned
             /\ Cardinality({c \in Cells : grid_[c] # last.pass.grid[c]}) = 1
             /\ \A c \in Cells :
                    grid_[c] # last.pass.grid[c] => last.pass.grid[c] = 0 /\ grid_[c] # 0

\* A move that changed nothing although some line holds two tiles next to each
\* other (the last branch of the pass ran without swapping).
UnchangedMoveWithNeighbours ==
    /\ MoveRan
    /\ last.pass.grid = last.pre.grid
    /\ \E i \in LineIndex : \E j \in 1..(size - 1) :
           /\ Along(last.pre.grid, last.dir, i)[j] # 0
           /\ Along(last.pre.grid, last.dir, i)[j + 1] # 0
    /\ Snapshot = last.pre

\* C7: after the pass every tile is one tile of the board at entry, or the merge
\* of exactly two of them, of equal exponent e, with exponent e + 1, and its
\* parts come from its own line; every tile at entry is part of exactly one
\* tile.  A line 1,1,2 becomes 2,2,0 and a line 1,1,1,1 becomes 2,2,0,0.
MergedTileMergesOnce ==
    last.op = "move" =>
        /\ \A i \in LineIndex : \A j \in LineIndex :
              LET c == Line(last.dir, i)[j]
                  o == last.pass.origin[c]
                  e == last.pass.grid[c]
              IN  /\ o \subseteq {Line(last.dir, i)[k] : k \in LineIndex}
                  /\ IF e = 0 THEN o = {}
                     ELSE \/ Cardinality(o) = 1 /\ \A a \in o : last.pre.grid[a] = e
                          \/ Cardinality(o) = 2 /\ \A a \in o : last.pre.grid[a] + 1 = e
        /\ \A a \in Cells :
              last.pre.grid[a] # 0 =>
                  Cardinality({c \in Cells : a \in last.pass.origin[c]}) = 1
        /\ \A i \in LineIndex :
              /\ Along(last.pre.grid, last.dir, i) = <<1, 1, 2>>
                    => Along(last.pass.grid, last.dir, i) = <<2, 2, 0>>
              /\ Along(last.pre.grid, last.dir, i) = <<1, 1, 1, 1>>
                    => Along(last.pass.grid, last.dir, i) = <<2, 2, 0, 0>>

\* A pass that left a merged tile next to a tile of the same exponent.
MergedTileBesideEqualTile ==
    /\ MoveRan
    /\ \E i \in LineIndex : \E j \in 0..(size - 2) :
           /\ Cardinality(last.pass.origin[Line(last.dir, i)[j]]) = 2
           /\ last.pass.grid[Line(last.dir, i)[j + 1]] = last.pass.grid[Line(last.dir, i)[j]]

\* C8: the pass leaves as many tiles as there were minus the merges it made, and
\* the move returns one more than that if the pass changed the board.
TileConservation ==
    last.op = "move" =>
        /\ Tiles(last.pass.grid) = Tiles(last.pre.grid) - last.pass.merges
        /\ Tiles(grid_) = Tiles(last.pass.grid)
                            + (IF last.pass.grid # last.pre.grid THEN 1 ELSE 0)

\* A move with two merges followed by its spawn.
TwoMergesThenSpawn ==
    /\ MoveRan
    /\ last.pass.merges >= 2
    /\ Tiles(grid_) = Tiles(last.pre.grid) - last.pass.merges + 1

\* C9: no move() and no reset() lowers the score.
ScoreNeverDecreases ==
    last.op \in {"move", "reset"} => score_ >= last.pre.score

\* A reset with points on the score, and a move that earned some.
ScoreKeptAcrossReset ==
    /\ last.op = "reset"
    /\ last.pre.score >= 4
    /\ score_ = last.pre.score

\* C10: after construction exactly one cell is non-zero, with exponent 1 or 2,
\* empty_cells_count_ is size*size - 1, the score is 0 and the state running.
ConstructedWithOneTile ==
    ops = 0 =>
        /\ last.op = "new"
        /\ Tiles(grid_) = 1
        /\ \A c \in Cells : grid_[c] \in {0, 1, 2}
        /\ empty_cells_count_ = size * size - 1
        /\ score_ = 0
        /\ state_ = "running"

\* A freshly constructed board of size >= 2 whose tile is a 4.
ConstructedWithAFour ==
    /\ ops = 0
    /\ size >= 2
    /\ \E c \in Cells : grid_[c] = 2
    /\ Tiles(grid_) = 1

-----------------------------------------------------------------------------
(* Properties of the generator and of seeding *)

\* The positions of the 1 bits of x, and the shifts and exclusive-or on them.
Ones(x) == {i \in Bit : x[i] = 1}
SetShl(S, k) == {i + k : i \in {j \in S : j + k <= 31}}
SetShr(S, k) == {i - k : i \in {j \in S : j >= k}}
SymDiff(A, B) == (A \ B) \cup (B \ A)

\* s ^= s << a; s ^= s >> b; s ^= s << c on sets of bit positions.
ThreeStage(S, a, b, c) ==
    LET s1 == SymDiff(S, SetShl(S, a))
        s2 == SymDiff(s1, SetShr(s1, b))
    IN  SymDiff(s2, SetShl(s2, c))

\* C12: of the sampled values r of the value-selecting output, a quarter gives
\* exponent 2 and three quarters give exponent 1.
SpawnValueQuarterFours ==
    draw.n > 0 =>
        /\ 4 * Cardinality({r \in Sample : SpawnValue(r) = 2}) = Cardinality(Sample)
        /\ 4 * Cardinality({r \in Sample : SpawnValue(r) = 1}) = 3 * Cardinality(Sample)

\* C13 as claimed: next() is the three-stage XOR-shift with shifts 13, 17, 5.
NextIsShift13Right17Left5 ==
    draw.n > 0 => Ones(draw.state) = ThreeStage(Ones(draw.prev), 13, 17, 5)

\* C13: next() takes a non-zero state s to s ^= s << 13; s ^= s >> 17;
\* s ^= s << 15, modulo 2^32, and returns the new state.
NextIsShift13Right17Left15 ==
    (draw.n > 0 /\ ~IsZero32(draw.prev)) =>
        Ones(draw.state) = ThreeStage(Ones(draw.prev), 13, 17, 15)

\* A draw from a state with bits on both sides of bit 17, so that all three
\* stages act and bits are shifted out at the top.
DrawFromHighState ==
    /\ draw.n > 0
    /\ \E i \in 17..31 : draw.prev[i] = 1
    /\ \E i \in 0..16 : draw.prev[i] = 1
    /\ Ones(draw.state) # ThreeStage(Ones(draw.prev), 13, 17, 5)
    /\ Ones(draw.state) = ThreeStage(Ones(draw.prev), 13, 17, 15)

\* C14: the engine constructed with seed 0 and the engine constructed with seed
\* 1 agree on board, score, empty count and state after construction and after
\* every call, and no generator state is 0.
SeedZeroIsSeedOne ==
    /\ ~IsZero32(prng_)
    /\ twin.on =>
          /\ ~IsZero32(twin.m.prng)
          /\ twin.m.grid = grid_
          /\ twin.m.score = score_
          /\ twin.m.empty = empty_cells_count_
          /\ twin.m.state = state_

\* The two engines after several calls that spawned, merged and scored.
TwinsAfterPlay ==
    /\ twin.on
    /\ ops >= 3
    /\ last.op = "move"
    /\ last.spawned
    /\ last.pass.merges >= 1
    /\ twin.m.grid = grid_
    /\ twin.m.score = score_

-----------------------------------------------------------------------------
(* Properties of the pass, the spawn and the end of the game *)

\* The j-th cell of row or column k counted from the border the tiles of a move
\* in direction dir slide to: row 0 for up, row size-1 for down, column 0 for
\* left, column size-1 for right.
EdgeCell(dir, k, j) ==
    IF dir = up THEN j * size + k
    ELSE IF dir = down THEN (size - 1 - j) * size + k
    ELSE IF dir = left THEN k * size + j
    ELSE k * size + (size - 1 - j)

FromEdge(g, dir, k) == [j \in 1..size |-> g[EdgeCell(dir, k, j - 1)]]

NonZero(seq) == SelectSeq(seq, LAMBDA x : x # 0)

\* The 2048 rule on a packed line: from the leading edge on, two equal
\* neighbours not yet merged become one tile of the next exponent.
RECURSIVE MergePairs(_)
MergePairs(seq) ==
    IF Len(seq) < 2 THEN seq
    ELSE IF seq[1] = seq[2]
         THEN <<seq[1] + 1>> \o MergePairs(SubSeq(seq, 3, Len(seq)))
         ELSE <<seq[1]>> \o MergePairs(Tail(seq))

ReferenceLine(seq) ==
    LET m == MergePairs(NonZero(seq))
    IN  [j \in 1..Len(seq) |-> IF j <= Len(m) THEN m[j] ELSE 0]

\* C15: for every direction, the pass turns each row or column along the move
\* axis into the reference line result, packed against the leading edge.
PassIsReferenceLineResult ==
    MoveRan =>
        \A k \in LineIndex :
            FromEdge(last.pass.grid, last.dir, k)
                = ReferenceLine(FromEdge(last.pre.grid, last.dir, k))

\* A move towards the far border (down or right) of a line of at least three
\* tiles with a gap, of which two merged.
ReverseMoveWithGapAndMerge ==
    /\ MoveRan
    /\ last.dir \in {down, right}
    /\ \E k \in LineIndex :
          LET before == FromEdge(last.pre.grid, last.dir, k)
              after  == FromEdge(last.pass.grid, last.dir, k)
          IN  /\ Len(NonZero(before)) >= 3
              /\ Len(NonZero(before)) < size
              /\ Len(NonZero(after)) = Len(NonZero(before)) - 1
              /\ after = ReferenceLine(before)

\* C16: the state goes from running to ended in a move() entered with
\* empty_cells_count_ == 0 and in no other call; a move that ran its pass, the
\* one that fills the last cell included, leaves the state as it was.
EndIsDetectedLazily ==
    ops > 0 =>
        /\ (last.pre.state = "running" /\ state_ = "ended")
              <=> (last.op = "move" /\ last.pre.empty = 0 /\ last.pre.state = "running")
        /\ MoveRan => state_ = last.pre.state

\* The move whose spawn filled the last empty cell: full board, still running.
FullBoardStillRunning ==
    /\ MoveRan
    /\ last.spawned
    /\ size >= 2
    /\ ZeroCells(grid_) = 0
    /\ empty_cells_count_ = 0
    /\ state_ = "running"

\* The k-th empty cell of board g in row-major order, counted from 0.
KthEmpty(g, k) ==
    CHOOSE c \in Cells : g[c] = 0 /\ Cardinality({d \in Cells : d < c /\ g[d] = 0}) = k

\* C17: a spawn draws twice, r1 then r2; it writes the tile into the k-th empty
\* cell in row-major order, k = r1 % empty_cells_count_ at entry, takes the
\* value from r2, changes no other cell and lowers the count by one.
SpawnUsesTwoDraws ==
    last.spawned =>
        LET r1 == XorshiftNext(last.pre.prng)
            r2 == XorshiftNext(r1)
            k  == Mod32(r1, last.into.empty)
        IN  /\ prng_ = r2
            /\ last.at = KthEmpty(last.into.grid, k)
            /\ grid_[last.at] = (IF Div4IsZero(r2) THEN 2 ELSE 1)
            /\ \A c \in Cells \ {last.at} : grid_[c] = last.into.grid[c]
            /\ empty_cells_count_ = last.into.empty - 1

\* A spawn after a move that did not take the first empty cell.
SpawnIntoLaterEmptyCell ==
    /\ MoveRan
    /\ last.spawned
    /\ last.into.empty >= 3
    /\ Mod32(XorshiftNext(last.pre.prng), last.into.empty) >= 1
    /\ last.at = KthEmpty(last.into.grid, Mod32(XorshiftNext(last.pre.prng), last.into.empty))

\* C18: spawn_new_number is never entered with empty_cells_count_ == 0; its
\* scan finds an empty cell and does not run off the end of the board.
SpawnNeverOnFullBoard ==
    last.spawned =>
        /\ last.into.empty > 0
        /\ ~last.ub
        /\ last.at \in Cells
        /\ last.into.grid[last.at] = 0

\* A spawn, after a move, into the only empty cell left.
SpawnIntoLastEmptyCell ==
    /\ MoveRan
    /\ last.spawned
    /\ size >= 2
    /\ last.into.empty = 1
    /\ ~last.ub

\* The directions in which a move would change the board.
ChangingDirections ==
    {d \in Directions :
        MoveHelper(grid_, empty_cells_count_, score_, d).grid # grid_}

\* C19: with size >= 2 and an empty cell, the board holds a tile and some
\* direction changes the board.
SomeMoveChangesBoard ==
    (size >= 2 /\ empty_cells_count_ > 0) =>
        /\ Tiles(grid_) >= 1
        /\ \E d \in Directions :
              MoveHelper(grid_, empty_cells_count_, score_, d).grid # grid_

\* A board with one empty cell on which only some directions change anything.
FewChangingDirections ==
    /\ size >= 2
    /\ empty_cells_count_ = 1
    /\ Tiles(grid_) >= 3
    /\ Cardinality(ChangingDirections) \in {1, 2}

\* C20: at the start of every scan step of a pass the cursor is on the line of
\* the scanned cell, before it, with only empty cells between them, inside the
\* board; a tile the last branch moves lands in an empty cell.
CursorStaysBehindScan ==
    last.op = "move" => last.pass.cursor_ok

\* A pass in which a tile was moved up to an occupied neighbour on a line of
\* at least three cells.
TileClosedAGap ==
    /\ MoveRan
    /\ size >= 3
    /\ last.pass.cursor_ok
    /\ \E i \in LineIndex : \E j \in 1..(size - 1) :
           LET c == Line(last.dir, i)[j]
           IN  /\ last.pass.grid[Line(last.dir, i)[j - 1]] # 0
               /\ Cardinality(last.pass.origin[c]) = 1
               /\ c \notin last.pass.origin[c]

====
